---- MODULE Spec2Model ----
(***************************************************************************)
(* One invocation of exports.handler of functions/convert.js: the request  *)
(* checks, the download, the capability and format probes, the deadline    *)
(* check, the strategy fallback engine (convertWithFFmpeg.tryConversion    *)
(* with its timer, close and error callbacks), the output verification,    *)
(* the response and the cleanup. Time is the number of milliseconds since  *)
(* startTime. Subprocesses, the HTTP client and the file system are the    *)
(* environment: their outcomes are chosen nondeterministically.            *)
(***************************************************************************)
EXTENDS Integers, Sequences, FiniteSets, TLC

(* ------------------------- program constants --------------------------- *)

MAX_PROCESSING_TIME == 9000

\* A variant of the guard of the conversion: remainingTime <= 2000.
MinConversionTimeInclusive == 2000 + 1

MinConversionTime == 2000
CleanupReserve == 500
RetryDelay == 100
EncoderTimeout == 3000
ProbeTimeout == 5000
DownloadTimeout == 3000
MB == 1024 * 1024
LargeInputLimit == 10 * MB
MaxInputSize == 20 * MB
NETLIFY_RESPONSE_LIMIT == 3 * MB

(* ------------------------------ paths ---------------------------------- *)

InPath == "in.m4a"
OutPath == "out.mp3"
NoFile == [fmt |-> "none", size |-> 0, whole |-> FALSE, by |-> 0]

\* outputPath.replace('.mp3', ext)
ReplaceMp3(p, ext) ==
  IF p = "out.mp3" THEN
    CASE ext = ".wav" -> "out.wav"
      [] ext = ".aac" -> "out.aac"
      [] ext = ".mp4" -> "out.mp4"
      [] OTHER -> p
  ELSE p

\* path.extname(p).toLowerCase()
ExtName(p) ==
  CASE p = "out.mp3" -> ".mp3"
    [] p = "out.wav" -> ".wav"
    [] p = "out.aac" -> ".aac"
    [] p = "out.mp4" -> ".mp4"
    [] p = "in.m4a" -> ".m4a"
    [] OTHER -> ""

possibleOutputs ==
  << OutPath, ReplaceMp3(OutPath, ".wav"), ReplaceMp3(OutPath, ".aac"),
     ReplaceMp3(OutPath, ".mp4") >>

cleanupFiles == << InPath >> \o possibleOutputs

Paths == { cleanupFiles[i] : i \in 1..Len(cleanupFiles) }

(* ---------------------------- error texts ------------------------------ *)

\* The substrings the catch block of the handler searches err.message for,
\* and, for every error text of the program, the ones that occur in it.
Includes(msg, pat) ==
  pat \in
    CASE msg = "Missing Authorization header" -> {"Authorization"}
      [] msg = "Invalid authorization format. Use 'Bearer <token>'" -> {"Invalid"}
      [] msg = "Server configuration error: API token not set" -> {}
      [] msg = "Invalid authentication token" -> {"Invalid", "authentication"}
      [] msg = "FFmpeg binary not found. Please ensure the static binary is included."
           -> {"FFmpeg", "binary not found"}
      [] msg = "FFprobe binary not found. Please ensure the static binary is included."
           -> {"binary not found"}
      [] msg = "No URL provided" -> {}
      [] msg = "getaddrinfo ENOTFOUND example.invalid" -> {"ENOTFOUND"}
      [] msg = "timeout of 4000ms exceeded" -> {"timeout"}
      [] msg = "Request failed with status code 404" -> {}
      [] msg = "maxContentLength size of 26214400 exceeded" -> {}
      [] msg = "Download timeout" -> {"timeout"}
      [] msg = "aborted" -> {}
      [] msg = "Downloaded file is empty" -> {}
      [] msg = "Input file too large (over 20MB). Please use a shorter recording or compress the file before conversion."
           -> {"Input file too large"}
      [] msg = "Insufficient time remaining for conversion. File may be too large for processing within time limits."
           -> {}
      [] msg = "All conversion strategies failed. Attempted: " -> {"conversion strategies failed"}
      [] msg = "Conversion did not create any output file" -> {}
      [] msg = "Conversion created empty output file" -> {}
      [] OTHER -> {}

\* A variant of the classification that answers a missing url as a bad
\* request and everything else with the default.
ClassificationBadRequest(msg) ==
  IF msg = "No URL provided"
    THEN [statusCode |-> 400, error |-> msg]
    ELSE [statusCode |-> 500, error |-> msg]

\* The classification of the catch block: the status code and the
\* user-facing text of an error.
Classification(msg) ==
  IF Includes(msg, "timeout") \/ Includes(msg, "Timeout") \/ Includes(msg, "Timedout")
    THEN [statusCode |-> 504, error |-> "Processing timeout."]
  ELSE IF Includes(msg, "Input file too large")
    THEN [statusCode |-> 413, error |-> "Audio file too large (over 20MB)."]
  ELSE IF Includes(msg, "ENOTFOUND") \/ Includes(msg, "network")
    THEN [statusCode |-> 400, error |-> "Could not download the source file."]
  ELSE IF Includes(msg, "FFmpeg") \/ Includes(msg, "ffmpeg")
          \/ Includes(msg, "conversion strategies failed")
    THEN [statusCode |-> 422,
          error |-> "Audio conversion failed after trying multiple strategies."]
  ELSE IF Includes(msg, "binary not found")
    THEN [statusCode |-> 503,
          error |-> "Audio conversion service temporarily unavailable."]
  ELSE IF Includes(msg, "Authorization") \/ Includes(msg, "authentication")
          \/ Includes(msg, "Invalid")
    THEN [statusCode |-> 401, error |-> "Authentication failed."]
  ELSE IF Includes(msg, "probe failed") \/ Includes(msg, "corrupted")
    THEN [statusCode |-> 422,
          error |-> "iOS M4A file appears to be corrupted or uses an unsupported encoding."]
  ELSE [statusCode |-> 500, error |-> msg]

(* --------------------- request validation, locator --------------------- *)

AuthHeaders == {"", "Basic good", "Bearer good", "Bearer bad", "Bearer "}
ApiTokens == {"", "good"}

\* authHeader.startsWith('Bearer ')
StartsWithBearer(authHeader) == authHeader \in {"Bearer good", "Bearer bad", "Bearer "}

\* authHeader.substring(7)
BearerToken(authHeader) ==
  CASE authHeader = "Bearer good" -> "good"
    [] authHeader = "Bearer bad" -> "bad"
    [] OTHER -> ""

\* A variant of validateBearerToken without the check that a secret is
\* configured.
validateBearerTokenNoSecretCheck(authHeader, validToken) ==
  IF authHeader = "" THEN "Missing Authorization header"
  ELSE IF ~StartsWithBearer(authHeader)
    THEN "Invalid authorization format. Use 'Bearer <token>'"
  ELSE IF BearerToken(authHeader) # validToken THEN "Invalid authentication token"
  ELSE ""

\* A variant of validateBearerToken that does not compare the token.
validateBearerTokenAnyToken(authHeader, validToken) ==
  IF authHeader = "" THEN "Missing Authorization header"
  ELSE IF ~StartsWithBearer(authHeader)
    THEN "Invalid authorization format. Use 'Bearer <token>'"
  ELSE IF validToken = "" THEN "Server configuration error: API token not set"
  ELSE ""

\* validateBearerToken: the text of the error it throws, "" when it returns true.
validateBearerToken(authHeader, validToken) ==
  IF authHeader = "" THEN "Missing Authorization header"
  ELSE IF ~StartsWithBearer(authHeader)
    THEN "Invalid authorization format. Use 'Bearer <token>'"
  ELSE IF validToken = "" THEN "Server configuration error: API token not set"
  ELSE IF BearerToken(authHeader) # validToken THEN "Invalid authentication token"
  ELSE ""

\* The candidate paths of the two binaries, in the order they are tried.
possiblePaths ==
  << "__dirname/../bin/ffmpeg", "__dirname/bin/ffmpeg", "cwd/bin/ffmpeg",
     "/opt/bin/ffmpeg", "/usr/bin/ffmpeg", "/usr/local/bin/ffmpeg", "ffmpeg" >>

probePaths ==
  << "__dirname/../bin/ffprobe", "__dirname/bin/ffprobe", "cwd/bin/ffprobe",
     "/opt/bin/ffprobe", "/usr/bin/ffprobe", "/usr/local/bin/ffprobe", "ffprobe" >>

CandidatePaths ==
  { possiblePaths[i] : i \in 1..Len(possiblePaths) }
    \cup { probePaths[i] : i \in 1..Len(probePaths) }

\* A file system, as far as the locator sees it: the candidate paths that
\* are regular files and those that are directories.
MaxFiles == 2

FileSystems ==
  { fsys \in [ regular : { x \in SUBSET CandidatePaths : Cardinality(x) <= MaxFiles },
               directories : { {}, {"__dirname/../bin/ffmpeg"}, {"/opt/bin/ffprobe"} } ] :
      fsys.regular \cap fsys.directories = {} }

\* The file systems of the invocations that are followed beyond the locator.
DeployedFileSystems ==
  { [regular |-> r, directories |-> {}] :
      r \in SUBSET {"__dirname/../bin/ffmpeg", "__dirname/../bin/ffprobe"} }

\* fs.existsSync(testPath) && fs.statSync(testPath).isFile()
IsRegularFile(fsys, testPath) ==
  /\ testPath \in fsys.regular \cup fsys.directories
  /\ testPath \in fsys.regular

\* One of the two search loops: the first candidate that passes the test,
\* "" (null) when the loop ends without one.
FirstFound(list, fsys) ==
  LET hits == { i \in 1..Len(list) : IsRegularFile(fsys, list[i]) } IN
    IF hits = {} THEN ""
    ELSE list[CHOOSE i \in hits : \A j \in hits : i <= j]

NotLooked == [looked |-> FALSE, ffmpegPath |-> "", ffprobePath |-> "", error |-> ""]

\* A variant of getFFmpegPaths that returns what it found without throwing.
getFFmpegPathsNoThrow(fsys) ==
  [ looked |-> TRUE, ffmpegPath |-> FirstFound(possiblePaths, fsys),
    ffprobePath |-> FirstFound(probePaths, fsys), error |-> "" ]

\* getFFmpegPaths: the two paths it found and the text of the error it
\* throws, "" when it returns.
getFFmpegPaths(fsys) ==
  LET ffmpegPath == FirstFound(possiblePaths, fsys)
      ffprobePath == FirstFound(probePaths, fsys)
  IN [ looked |-> TRUE, ffmpegPath |-> ffmpegPath, ffprobePath |-> ffprobePath,
       error |->
         IF ffmpegPath = ""
           THEN "FFmpeg binary not found. Please ensure the static binary is included."
         ELSE IF ffprobePath = ""
           THEN "FFprobe binary not found. Please ensure the static binary is included."
         ELSE "" ]

(* ------------------------- capability prober --------------------------- *)

\* What the encoder listing may print: the encoder names of a build.
EncoderListings ==
  { {"aac", "pcm_s16le"}, {"libmp3lame", "aac", "pcm_s16le"} }

\* stdout.includes(pat), for the patterns checkAvailableEncoders looks for.
StdoutIncludes(stdout, pat) ==
  \E e \in stdout :
    pat \in CASE e = "libmp3lame" -> {"libmp3lame"}
              [] e = "aac" -> {"aac"}
              [] e = "libfdk_aac" -> {"aac", "libfdk_aac"}
              [] e = "pcm_s16le" -> {"pcm_"}
              [] e = "mp3float" -> {"mp3float"}
              [] OTHER -> {}

EncoderFlags(stdout) ==
  [ hasLibmp3lame |-> StdoutIncludes(stdout, "libmp3lame"),
    hasMp3 |-> StdoutIncludes(stdout, " mp3 ") \/ StdoutIncludes(stdout, "mp3float"),
    hasAac |-> StdoutIncludes(stdout, "aac") \/ StdoutIncludes(stdout, "libfdk_aac"),
    hasWav |-> StdoutIncludes(stdout, "pcm_") \/ StdoutIncludes(stdout, "wav") ]

NoEncoders ==
  [ hasLibmp3lame |-> FALSE, hasMp3 |-> FALSE, hasAac |-> FALSE, hasWav |-> FALSE ]

(* --------------------------- format prober ----------------------------- *)

NullMetadata == [format_name |-> "", codec_name |-> "", appleTag |-> FALSE, null |-> TRUE]

\* What ffprobe may report for the input.
ProbeReports ==
  { [format_name |-> "mov,mp4,m4a,3gp,3g2,mj2", codec_name |-> "aac",
     appleTag |-> FALSE, null |-> FALSE] }

isIosM4a(md) ==
  /\ ~md.null
  /\ \/ md.format_name = "mov,mp4,m4a,3gp,3g2,mj2"
     \/ md.codec_name = "aac"
     \/ md.appleTag

(* ------------------------- strategy selection -------------------------- *)

\* The names of the static strategy list, in its order.
strategies(size) ==
  (IF size > LargeInputLimit THEN << "ultra-compressed" >> ELSE << >>)
    \o << "wav-pcm-compressed", "aac-compressed", "libmp3lame-minimal" >>

\* strategy.args[strategy.args.length - 1]
actualOutputPath(name) ==
  CASE name = "ultra-compressed" -> ReplaceMp3(OutPath, ".aac")
    [] name = "wav-pcm-compressed" -> ReplaceMp3(OutPath, ".wav")
    [] name = "aac-compressed" -> ReplaceMp3(OutPath, ".aac")
    [] OTHER -> OutPath

\* The encoder the strategy's arguments ask ffmpeg to use (-c:a).
CodecOf(name) ==
  CASE name = "ultra-compressed" -> "aac"
    [] name = "wav-pcm-compressed" -> "pcm_s16le"
    [] name = "aac-compressed" -> "aac"
    [] OTHER -> "libmp3lame"

\* The container the strategy's arguments ask ffmpeg to write (-f).
ContainerOf(name) ==
  CASE name = "ultra-compressed" -> "aac"
    [] name = "wav-pcm-compressed" -> "wav"
    [] name = "aac-compressed" -> "aac"
    [] OTHER -> "mp3"

\* s.name.includes('libmp3lame')
NameIncludesLibmp3lame(name) == name = "libmp3lame-minimal"

IndexOf(list, name) ==
  IF \E i \in 1..Len(list) : list[i] = name
    THEN CHOOSE i \in 1..Len(list) :
           list[i] = name /\ \A j \in 1..(i - 1) : list[j] # name
    ELSE 0

\* find(s => s.name === name), then splice and unshift: no change when absent.
MoveToFront(list, name) ==
  LET i == IndexOf(list, name) IN
    IF i = 0 THEN list
    ELSE << list[i] >> \o SubSeq(list, 1, i - 1) \o SubSeq(list, i + 1, Len(list))

WithoutLibmp3lame(list) == SelectSeq(list, LAMBDA n : ~NameIncludesLibmp3lame(n))

\* A selection whose reorderings look up names the strategies have:
\* 'wav-pcm-compressed' when hasWav, 'aac-compressed' for the iOS profile.
AvailableStrategiesReordering(size, info, md) ==
  LET s0 == strategies(size)
      s1 == IF info.hasWav THEN MoveToFront(s0, "wav-pcm-compressed") ELSE s0
      s2 == IF ~info.hasLibmp3lame THEN WithoutLibmp3lame(s1) ELSE s1
      s3 == IF isIosM4a(md) THEN MoveToFront(s2, "aac-compressed") ELSE s2
  IN s3

\* availableStrategies of convertWithFFmpeg.
AvailableStrategies(size, info, md) ==
  LET s0 == strategies(size)
      s1 == IF info.hasWav THEN MoveToFront(s0, "wav-pcm") ELSE s0
      s2 == IF ~info.hasLibmp3lame THEN WithoutLibmp3lame(s1) ELSE s1
      s3 == IF isIosM4a(md) THEN MoveToFront(s2, "aac-output") ELSE s2
  IN s3

\* contentType of the handler, from the extension of finalOutputPath.
ContentTypeOf(extension) ==
  CASE extension = ".wav" -> "audio/wav"
    [] extension = ".aac" -> "audio/aac"
    [] extension = ".mp4" -> "audio/mp4"
    [] OTHER -> "audio/mpeg"

(* ------------------------------- state --------------------------------- *)

VARIABLES
  request,              \* the event and the environment it is handled in
  binaries,             \* what getFFmpegPaths found, once it was called
  timestamp,            \* Date.now() - startTime at the naming of the scratch
                        \* paths, of this invocation and of one that overlaps it
  pc,                   \* where the handler is: the await it is suspended on
  now,                  \* Date.now() - startTime
  response,             \* what the handler returned
  files,                \* the scratch files: path -> content
  pathsSet,             \* inPath and outPath are assigned
  axiosTimer,           \* timeout: 4000 of axios.get
  downloadTimer,        \* downloadTimeout
  inputSize,            \* inputStats.size
  configProc,           \* ffmpeg -version
  encoderProc,          \* ffmpeg -encoders
  encoderTimer,         \* timeout of checkAvailableEncoders
  encoderInfo,          \* what checkAvailableEncoders resolved with
  probeProc,            \* ffprobe
  probeTimer,           \* timeout of probeAudioFile
  metadata,             \* what probeAudioFile resolved with, or null
  engine,               \* the promise of convertWithFFmpeg
  settledWith,          \* how many attempts were spawned when it settled
  timeoutMs,
  availableStrategies,
  currentStrategy,
  attemptedStrategies,
  attempts,             \* the ffmpeg subprocesses of tryConversion, in spawn order
  retryTimers           \* due times of the pending setTimeout(tryConversion, 100)

reqVars == << request, binaries, timestamp >>
handlerVars == << pc, response, files, pathsSet >>
dlVars == << axiosTimer, downloadTimer, inputSize >>
encVars == << configProc, encoderProc, encoderTimer, encoderInfo >>
probeVars == << probeProc, probeTimer, metadata >>
engVars ==
  << engine, settledWith, timeoutMs, availableStrategies, currentStrategy,
     attemptedStrategies, attempts, retryTimers >>
vars == << reqVars, now, handlerVars, dlVars, encVars, probeVars, engVars >>

Off == -1

Invocations == {"this", "peer"}

\* path.join(os.tmpdir(), `in_${timestamp}.m4a`) and its output counterpart.
ScratchPaths(t) ==
  [ inPath |-> << "in_", t, ".m4a" >>, outPath |-> << "out_", t, ".mp3" >> ]

\* The timer of the version query: checkAvailableEncoders arms none for
\* configProcess.
configTimer == Off

NoResponse ==
  [ statusCode |-> 0, contentType |-> "", filename |-> "", body |-> NoFile,
    error |-> "", debug |-> "", attempted |-> << >> ]

Requests ==
  [ authHeader : AuthHeaders, apiToken : ApiTokens,
    fsys : DeployedFileSystems, hasUrl : BOOLEAN, unlinkFails : {{}} ]

\* The scratch paths on which fs.unlinkSync throws.
UnlinkFailures == { {}, {InPath}, {OutPath} }

\* The requests handled in a scratch directory whose files may resist
\* deletion.
CleanupRequests ==
  [ authHeader : AuthHeaders, apiToken : ApiTokens,
    fsys : DeployedFileSystems, hasUrl : BOOLEAN, unlinkFails : UnlinkFailures ]

\* The requests that the locator is followed on, over every file system.
LocatorRequests ==
  [ authHeader : {"Bearer good"}, apiToken : {"good"},
    fsys : FileSystems, hasUrl : BOOLEAN, unlinkFails : {{}} ]

\* The state at the entry of the handler.
Entry ==
  /\ binaries = NotLooked
  /\ timestamp = [i \in Invocations |-> Off]
  /\ pc = "start"
  /\ now = 0
  /\ response = NoResponse
  /\ files = [p \in Paths |-> NoFile]
  /\ pathsSet = FALSE
  /\ axiosTimer = Off
  /\ downloadTimer = Off
  /\ inputSize = 0
  /\ configProc = "none"
  /\ encoderProc = "none"
  /\ encoderTimer = Off
  /\ encoderInfo = NoEncoders
  /\ probeProc = "none"
  /\ probeTimer = Off
  /\ metadata = NullMetadata
  /\ engine = "idle"
  /\ settledWith = 0
  /\ timeoutMs = 0
  /\ availableStrategies = << >>
  /\ currentStrategy = 0
  /\ attemptedStrategies = << >>
  /\ attempts = << >>
  /\ retryTimers = << >>

Init == request \in Requests /\ Entry

LocatorInit == request \in LocatorRequests /\ Entry

CleanupInit == request \in CleanupRequests /\ Entry

\* The inputs of the strategy selection: every combination of capability
\* flags, input sizes on both sides of the 10 MB threshold, and the reports
\* of ffprobe (the iOS profile, an mp3 file, a file with the Apple tag).
SelectionSizes == {1000, LargeInputLimit, LargeInputLimit + 1, MaxInputSize}

SelectionCapabilities ==
  [ hasLibmp3lame : BOOLEAN, hasMp3 : BOOLEAN, hasAac : BOOLEAN, hasWav : BOOLEAN ]

SelectionReports ==
  ProbeReports \cup
    { [format_name |-> "mp3", codec_name |-> "mp3", appleTag |-> FALSE, null |-> FALSE],
      [format_name |-> "wav", codec_name |-> "pcm_s16le", appleTag |-> TRUE,
       null |-> FALSE] }

\* The state of an invocation whose download and capability probe are over
\* and whose format probe is running.
SelectionInit ==
  /\ request = [ authHeader |-> "Bearer good", apiToken |-> "good",
                 fsys |-> [ regular |-> {"__dirname/../bin/ffmpeg",
                                         "__dirname/../bin/ffprobe"},
                            directories |-> {} ],
                 hasUrl |-> TRUE, unlinkFails |-> {} ]
  /\ binaries = getFFmpegPaths(request.fsys)
  /\ timestamp = [i \in Invocations |-> IF i = "this" THEN 0 ELSE Off]
  /\ pc = "probe"
  /\ now \in {0, 3000, 7000}
  /\ response = NoResponse
  /\ inputSize \in SelectionSizes
  /\ files = [p \in Paths |->
                IF p = InPath
                  THEN [fmt |-> "m4a", size |-> inputSize, whole |-> TRUE, by |-> 0]
                  ELSE NoFile]
  /\ pathsSet = TRUE
  /\ axiosTimer = Off
  /\ downloadTimer = Off
  /\ configProc = "closed"
  /\ encoderProc = "closed"
  /\ encoderTimer = Off
  /\ encoderInfo \in SelectionCapabilities
  /\ probeProc = "running"
  /\ probeTimer = now + ProbeTimeout
  /\ metadata = NullMetadata
  /\ engine = "idle"
  /\ settledWith = 0
  /\ timeoutMs = 0
  /\ availableStrategies = << >>
  /\ currentStrategy = 0
  /\ attemptedStrategies = << >>
  /\ attempts = << >>
  /\ retryTimers = << >>

(* ---------------------- responses and the cleanup ---------------------- *)

Exists(f, p) == f[p].fmt # "none"

\* finally: every scratch path that is assigned is unlinked, each in a try
\* of its own; a file whose unlink throws stays.
Cleanup(f, assigned) ==
  IF assigned
    THEN [p \in Paths |-> IF p \in request.unlinkFails THEN f[p] ELSE NoFile]
    ELSE f

\* A finally block without the inner try: the first unlink that throws ends
\* the loop and replaces the value the handler was returning.
FinallyPropagating(r, f, assigned) ==
  LET failing == { i \in 1..Len(cleanupFiles) :
                     /\ Exists(f, cleanupFiles[i])
                     /\ cleanupFiles[i] \in request.unlinkFails }
      first == CHOOSE i \in failing : \A j \in failing : i <= j
  IN
    IF assigned /\ failing # {}
      THEN [ response |->
               [ statusCode |-> 500, contentType |-> "", filename |-> "",
                 body |-> NoFile, error |-> "", debug |-> "EPERM: operation not permitted, unlink",
                 attempted |-> << >> ],
             files |->
               [p \in Paths |->
                  IF \E i \in 1..(first - 1) : cleanupFiles[i] = p THEN NoFile ELSE f[p]] ]
      ELSE [ response |-> r, files |-> Cleanup(f, assigned) ]

\* The try statement of the handler completes: r is the value returned by
\* the try or the catch block, the finally block runs and r is returned.
Finally(r, f, assigned) == [ response |-> r, files |-> Cleanup(f, assigned) ]

\* catch and finally of the handler, for an error with text msg.
Fail(msg, att, f, assigned) ==
  LET returned ==
        [ statusCode |-> Classification(msg).statusCode,
          contentType |-> "application/json", filename |-> "", body |-> NoFile,
          error |-> Classification(msg).error, debug |-> msg, attempted |-> att ]
  IN
    /\ response' = Finally(returned, f, assigned).response
    /\ pc' = "done"
    /\ files' = Finally(returned, f, assigned).files

(* ------------------------- output verification ------------------------- *)

\* The first of possibleOutputs that exists, "" when none does.
FinalOutputPath(f) ==
  LET present == { i \in 1..Len(possibleOutputs) : Exists(f, possibleOutputs[i]) } IN
    IF present = {} THEN ""
    ELSE possibleOutputs[CHOOSE i \in present : \A j \in present : i <= j]

\* A variant of the verification without the check of the response limit.
VerifyUnlimited(f) ==
  LET final == FinalOutputPath(f)
      extension == ExtName(final)
  IN
    IF final = ""
      THEN Fail("Conversion did not create any output file", << >>, f, TRUE)
    ELSE IF f[final].size = 0
      THEN Fail("Conversion created empty output file", << >>, f, TRUE)
    ELSE
      LET returned ==
            [ statusCode |-> 200, contentType |-> ContentTypeOf(extension),
              filename |-> "converted" \o extension, body |-> f[final],
              error |-> "", debug |-> "", attempted |-> << >> ]
      IN
        /\ response' = Finally(returned, f, TRUE).response
        /\ pc' = "done"
        /\ files' = Finally(returned, f, TRUE).files

\* The handler from the return of await convertWithFFmpeg to its own return,
\* the finally block included; f is the scratch area at that moment.
Verify(f) ==
  LET final == FinalOutputPath(f)
      extension == ExtName(final)
  IN
    IF final = ""
      THEN Fail("Conversion did not create any output file", << >>, f, TRUE)
    ELSE IF f[final].size = 0
      THEN Fail("Conversion created empty output file", << >>, f, TRUE)
    ELSE
      LET returned ==
            IF f[final].size > NETLIFY_RESPONSE_LIMIT
              THEN [ statusCode |-> 413, contentType |-> "application/json",
                     filename |-> "", body |-> NoFile,
                     error |-> "Converted file too large for response",
                     debug |-> "", attempted |-> << >> ]
              ELSE [ statusCode |-> 200, contentType |-> ContentTypeOf(extension),
                     filename |-> "converted" \o extension, body |-> f[final],
                     error |-> "", debug |-> "", attempted |-> << >> ]
      IN
        /\ response' = Finally(returned, f, TRUE).response
        /\ pc' = "done"
        /\ files' = Finally(returned, f, TRUE).files

(* ----------------------- strategy fallback engine ---------------------- *)

\* resolve() of convertWithFFmpeg: the first settlement resumes the handler.
EngineResolve(f) ==
  IF engine = "running"
    THEN /\ engine' = "resolved"
         /\ settledWith' = Len(attempts)
         /\ Verify(f)
    ELSE /\ files' = f
         /\ UNCHANGED << engine, settledWith, pc, response >>

\* tryConversion(): reject when the list is exhausted, else record the name,
\* spawn ffmpeg and arm its timer.
tryConversion(list, cs, tmo, eng, nextPc) ==
  IF cs >= Len(list)
    THEN /\ UNCHANGED << attemptedStrategies, attempts >>
         /\ IF eng = "running"
              THEN /\ engine' = "rejected"
                   /\ settledWith' = Len(attempts)
                   /\ Fail("All conversion strategies failed. Attempted: ",
                           attemptedStrategies, files, TRUE)
              ELSE /\ engine' = eng
                   /\ pc' = nextPc
                   /\ UNCHANGED << settledWith, response, files >>
    ELSE /\ attemptedStrategies' = Append(attemptedStrategies, list[cs + 1])
         /\ attempts' =
              Append(attempts,
                     [ strategy |-> list[cs + 1], state |-> "running", armed |-> TRUE,
                       launched |-> now, timeout |-> tmo ])
         /\ engine' = eng
         /\ pc' = nextPc
         /\ UNCHANGED << settledWith, response, files >>

\* currentStrategy++; setTimeout(tryConversion, 100)
NextStrategy ==
  /\ currentStrategy' = currentStrategy + 1
  /\ retryTimers' = Append(retryTimers, now + RetryDelay)

\* A variant of the call of convertWithFFmpeg without the check of the
\* remaining time.
StartConvertUnguarded(md) ==
  LET remainingTime == MAX_PROCESSING_TIME - now IN
    /\ timeoutMs' = remainingTime - CleanupReserve
    /\ availableStrategies' = AvailableStrategies(inputSize, encoderInfo, md)
    /\ currentStrategy' = 0
    /\ retryTimers' = retryTimers
    /\ tryConversion(availableStrategies', 0, timeoutMs', "running", "convert")

\* A variant of the selection that also looks at the clock: with less than
\* 5000 ms left the first candidate is dropped.
StartConvertAdaptive(md) ==
  LET remainingTime == MAX_PROCESSING_TIME - now
      list == AvailableStrategies(inputSize, encoderInfo, md)
  IN
    IF remainingTime < MinConversionTime
      THEN /\ Fail("Insufficient time remaining for conversion. File may be too large for processing within time limits.",
                   << >>, files, TRUE)
           /\ UNCHANGED engVars
      ELSE /\ timeoutMs' = remainingTime - CleanupReserve
           /\ availableStrategies' = IF remainingTime < 5000 THEN Tail(list) ELSE list
           /\ currentStrategy' = 0
           /\ retryTimers' = retryTimers
           /\ tryConversion(availableStrategies', 0, timeoutMs', "running", "convert")

\* The handler from the settlement of the probe to the first spawn of
\* convertWithFFmpeg: the remaining-time check and the strategy selection.
StartConvert(md) ==
  LET timeElapsed == now
      remainingTime == MAX_PROCESSING_TIME - timeElapsed
  IN
    IF remainingTime < MinConversionTime
      THEN /\ Fail("Insufficient time remaining for conversion. File may be too large for processing within time limits.",
                   << >>, files, TRUE)
           /\ UNCHANGED engVars
      ELSE /\ timeoutMs' = remainingTime - CleanupReserve
           /\ availableStrategies' = AvailableStrategies(inputSize, encoderInfo, md)
           /\ currentStrategy' = 0
           /\ retryTimers' = retryTimers
           /\ tryConversion(availableStrategies', 0, timeoutMs', "running", "convert")

\* What an ffmpeg attempt may have put at its output path when it ends:
\* nothing, or a file of some size (whole: the encoding ran to its end).
SuccessOutputs ==
  { [write |-> FALSE, size |-> 0, whole |-> FALSE] }
    \cup { [write |-> TRUE, size |-> n, whole |-> n > 0] :
             n \in {0, 1000, NETLIFY_RESPONSE_LIMIT + 1} }

FailureOutputs ==
  { [write |-> FALSE, size |-> 0, whole |-> FALSE],
    [write |-> TRUE, size |-> 500, whole |-> FALSE] }

\* The exit code the close event carries: 0 or 1 for a process that ends by
\* itself, no zero code (null, a negative errno) for a killed or failed one.
ExitCodes(state) == IF state = "running" THEN {0, 1} ELSE {-1}

OutputsOf(state, code) ==
  IF state = "errored" THEN { [write |-> FALSE, size |-> 0, whole |-> FALSE] }
  ELSE IF code = 0 THEN SuccessOutputs
  ELSE FailureOutputs

\* ffmpegProcess.on('close')
AttemptClose(k) ==
  /\ attempts[k].state \in {"running", "killed", "errored"}
  /\ \E code \in ExitCodes(attempts[k].state) :
     \E out \in OutputsOf(attempts[k].state, code) :
       LET a == attempts[k]
           path == actualOutputPath(a.strategy)
           written ==
             IF out.write
               THEN [files EXCEPT ![path] =
                       [ fmt |-> ContainerOf(a.strategy), size |-> out.size,
                         whole |-> out.whole, by |-> k ]]
               ELSE files
           renamed ==
             IF path # OutPath /\ Exists(written, path)
               THEN [written EXCEPT ![OutPath] = written[path], ![path] = NoFile]
               ELSE written
       IN
         /\ attempts' =
              [attempts EXCEPT ![k].state = IF code = 0 THEN "succeeded" ELSE "failed",
                               ![k].armed = FALSE]
         /\ IF code = 0
              THEN /\ EngineResolve(renamed)
                   /\ UNCHANGED << currentStrategy, retryTimers >>
              ELSE /\ NextStrategy
                   /\ files' = written
                   /\ UNCHANGED << engine, settledWith, pc, response >>
  /\ UNCHANGED << reqVars, now, pathsSet, dlVars, encVars, probeVars, timeoutMs,
                  availableStrategies, attemptedStrategies >>

\* ffmpegProcess.on('error'): a spawn that failed, reported at the instant
\* of the spawn; the close event may follow it ("errored") or not ("failed").
AttemptError(k) ==
  /\ attempts[k].state = "running"
  /\ now = attempts[k].launched
  /\ \E after \in {"errored", "failed"} :
       attempts' = [attempts EXCEPT ![k].state = after, ![k].armed = FALSE]
  /\ NextStrategy
  /\ UNCHANGED << reqVars, now, handlerVars, dlVars, encVars, probeVars, engine,
                  settledWith, timeoutMs, availableStrategies, attemptedStrategies >>

\* The setTimeout(..., timeoutMs) callback of an attempt.
AttemptTimeout(k) ==
  /\ attempts[k].armed
  /\ now >= attempts[k].launched + attempts[k].timeout
  /\ attempts' = [attempts EXCEPT ![k].state = "killed", ![k].armed = FALSE]
  /\ NextStrategy
  /\ UNCHANGED << reqVars, now, handlerVars, dlVars, encVars, probeVars, engine,
                  settledWith, timeoutMs, availableStrategies, attemptedStrategies >>

\* A variant of the retry that drops the strategy that failed from the
\* list before it tries the next one.
RetryConversionSplicing ==
  /\ retryTimers # << >>
  /\ now >= Head(retryTimers)
  /\ retryTimers' = Tail(retryTimers)
  /\ availableStrategies # << >>
  /\ availableStrategies' = Tail(availableStrategies)
  /\ currentStrategy' = 0
  /\ tryConversion(availableStrategies', currentStrategy', timeoutMs, engine, pc)
  /\ UNCHANGED << reqVars, now, pathsSet, dlVars, encVars, probeVars, timeoutMs >>

\* A setTimeout(tryConversion, 100) callback.
RetryConversion ==
  /\ retryTimers # << >>
  /\ now >= Head(retryTimers)
  /\ retryTimers' = Tail(retryTimers)
  /\ tryConversion(availableStrategies, currentStrategy, timeoutMs, engine, pc)
  /\ UNCHANGED << reqVars, now, pathsSet, dlVars, encVars, probeVars, timeoutMs,
                  availableStrategies, currentStrategy >>

(* ------------------- request checks and the download ------------------- *)

AxiosTimeoutMs == 4000

AxiosErrors ==
  { "getaddrinfo ENOTFOUND example.invalid", "Request failed with status code 404",
    "maxContentLength size of 26214400 exceeded" }

InputSizes == {0, 1000, MaxInputSize, MaxInputSize + 1}

\* A variant of the input verification without the check for an empty file.
InputErrorSizeOnly(size) ==
  IF size > MaxInputSize
    THEN "Input file too large (over 20MB). Please use a shorter recording or compress the file before conversion."
  ELSE ""

\* A variant of the input verification that also refuses a file of exactly
\* 20 MB.
InputErrorInclusive(size) ==
  IF size = 0 THEN "Downloaded file is empty"
  ELSE IF size >= MaxInputSize
    THEN "Input file too large (over 20MB). Please use a shorter recording or compress the file before conversion."
  ELSE ""

\* The input verification of the handler: the text of the error it throws
\* for a downloaded file of this size, "" when it goes on.
InputError(size) ==
  IF size = 0 THEN "Downloaded file is empty"
  ELSE IF size > MaxInputSize
    THEN "Input file too large (over 20MB). Please use a shorter recording or compress the file before conversion."
  ELSE ""

\* The handler from its start to await axios.get.
HandlerStart ==
  /\ pc = "start"
  /\ LET authError == validateBearerToken(request.authHeader, request.apiToken)
         located == getFFmpegPaths(request.fsys)
     IN
       IF authError # ""
         THEN Fail(authError, << >>, files, FALSE)
              /\ UNCHANGED << binaries, timestamp, pathsSet, axiosTimer >>
       ELSE
         /\ binaries' = located
         /\ IF located.error # ""
              THEN Fail(located.error, << >>, files, FALSE)
                   /\ UNCHANGED << timestamp, pathsSet, axiosTimer >>
            ELSE IF ~request.hasUrl
              THEN Fail("No URL provided", << >>, files, FALSE)
                   /\ UNCHANGED << timestamp, pathsSet, axiosTimer >>
            ELSE /\ timestamp' = [timestamp EXCEPT !["this"] = now]
                 /\ pathsSet' = TRUE
                 /\ axiosTimer' = now + AxiosTimeoutMs
                 /\ pc' = "download"
                 /\ UNCHANGED << response, files >>
  /\ UNCHANGED << request, now, downloadTimer, inputSize, encVars, probeVars, engVars >>

\* An invocation that overlaps this one in the same os.tmpdir() names its
\* scratch paths.
PeerStart ==
  /\ timestamp["peer"] = Off
  /\ timestamp' = [timestamp EXCEPT !["peer"] = now]
  /\ UNCHANGED << request, binaries, now, handlerVars, dlVars, encVars, probeVars,
                  engVars >>

\* axios.get resolves with the response stream: the write stream is created
\* and piped, and downloadTimeout is armed.
AxiosResponse ==
  /\ pc = "download"
  /\ axiosTimer' = Off
  /\ files' = [files EXCEPT ![InPath] = [fmt |-> "m4a", size |-> 0, whole |-> FALSE, by |-> 0]]
  /\ downloadTimer' = now + DownloadTimeout
  /\ pc' = "stream"
  /\ UNCHANGED << reqVars, now, response, pathsSet, inputSize, encVars, probeVars, engVars >>

\* axios.get rejects (DNS, HTTP status, size cap).
AxiosError ==
  /\ pc = "download"
  /\ \E msg \in AxiosErrors : Fail(msg, << >>, files, TRUE)
  /\ axiosTimer' = Off
  /\ UNCHANGED << reqVars, now, pathsSet, downloadTimer, inputSize, encVars, probeVars,
                  engVars >>

\* axios.get rejects because no response came within its timeout.
AxiosTimeout ==
  /\ pc = "download"
  /\ axiosTimer # Off
  /\ now >= axiosTimer
  /\ Fail("timeout of 4000ms exceeded", << >>, files, TRUE)
  /\ axiosTimer' = Off
  /\ UNCHANGED << reqVars, now, pathsSet, downloadTimer, inputSize, encVars, probeVars,
                  engVars >>

\* writeStream 'finish', and the handler up to the spawn of ffmpeg -version:
\* the input checks, then checkAvailableEncoders.
StreamFinish ==
  /\ pc = "stream"
  /\ downloadTimer' = Off
  /\ \E size \in InputSizes :
       LET f == [files EXCEPT ![InPath] =
                   [fmt |-> "m4a", size |-> size, whole |-> TRUE, by |-> 0]]
       IN
         /\ inputSize' = size
         /\ IF InputError(size) # ""
              THEN Fail(InputError(size), << >>, f, TRUE)
                   /\ UNCHANGED configProc
            ELSE /\ files' = f
                 /\ configProc' = "running"
                 /\ pc' = "encoders"
                 /\ UNCHANGED response
  /\ UNCHANGED << reqVars, now, pathsSet, axiosTimer, encoderProc, encoderTimer,
                  encoderInfo, probeVars, engVars >>

\* writeStream 'error' or resp.data 'error'
StreamError ==
  /\ pc = "stream"
  /\ downloadTimer' = Off
  /\ Fail("aborted", << >>, files, TRUE)
  /\ UNCHANGED << reqVars, now, pathsSet, axiosTimer, inputSize, encVars, probeVars,
                  engVars >>

\* The downloadTimeout callback.
DownloadTimerFire ==
  /\ pc = "stream"
  /\ downloadTimer # Off
  /\ now >= downloadTimer
  /\ downloadTimer' = Off
  /\ Fail("Download timeout", << >>, files, TRUE)
  /\ UNCHANGED << reqVars, now, pathsSet, axiosTimer, inputSize, encVars, probeVars,
                  engVars >>

(* ------------------- capability prober, format prober ------------------ *)

\* A variant of the handler without the try/catch around probeAudioFile: a
\* rejection of the probe ends the invocation.
ProbeSettleUncaught(md) ==
  IF pc = "probe"
    THEN /\ metadata' = md
         /\ IF md.null
              THEN /\ Fail("Audio file probe failed", << >>, files, TRUE)
                   /\ UNCHANGED engVars
              ELSE StartConvert(md)
    ELSE UNCHANGED << metadata, pc, response, files, engVars >>

\* resolve() of probeAudioFile or its rejection caught by the handler: the
\* handler goes on to the conversion with md.
ProbeSettle(md) ==
  IF pc = "probe"
    THEN /\ metadata' = md
         /\ StartConvert(md)
    ELSE UNCHANGED << metadata, pc, response, files, engVars >>

\* resolve() of checkAvailableEncoders: the handler goes on to spawn ffprobe.
EncoderResolve(info) ==
  IF pc = "encoders"
    THEN /\ encoderInfo' = info
         /\ probeProc' = "running"
         /\ probeTimer' = now + ProbeTimeout
         /\ pc' = "probe"
    ELSE UNCHANGED << encoderInfo, probeProc, probeTimer, pc >>

\* configProcess.on('close'): spawns ffmpeg -encoders and arms its timer.
ConfigClose ==
  /\ configProc \in {"running", "errored"}
  /\ configProc' = "closed"
  /\ encoderProc' = "running"
  /\ encoderTimer' = now + EncoderTimeout
  /\ UNCHANGED << reqVars, now, handlerVars, dlVars, encoderInfo, probeVars, engVars >>

\* configProcess.on('error'): the close event may follow it ("errored") or
\* not ("failed").
ConfigError ==
  /\ configProc = "running"
  /\ configProc' \in {"errored", "failed"}
  /\ EncoderResolve(NoEncoders)
  /\ UNCHANGED << reqVars, now, response, files, pathsSet, dlVars, encoderProc,
                  encoderTimer, metadata, engVars >>

\* encoderProcess.on('close'): the flags are read off whatever was printed,
\* with any exit code ("nonzero": the process ended by itself with a code
\* other than 0).
EncoderClose ==
  /\ encoderProc \in {"running", "killed", "errored"}
  /\ \E code \in ExitCodes(encoderProc) :
       encoderProc' = IF code = 1 THEN "nonzero" ELSE "closed"
  /\ encoderTimer' = Off
  /\ \E stdout \in EncoderListings : EncoderResolve(EncoderFlags(stdout))
  /\ UNCHANGED << reqVars, now, response, files, pathsSet, dlVars, configProc,
                  metadata, engVars >>

\* encoderProcess.on('error'): a spawn that failed, reported at the instant
\* of the spawn.
EncoderError ==
  /\ encoderProc = "running"
  /\ now = encoderTimer - EncoderTimeout
  /\ encoderProc' = "errored"
  /\ encoderTimer' = Off
  /\ EncoderResolve(NoEncoders)
  /\ UNCHANGED << reqVars, now, response, files, pathsSet, dlVars, configProc,
                  metadata, engVars >>

\* The timeout callback of checkAvailableEncoders.
EncoderTimerFire ==
  /\ encoderTimer # Off
  /\ now >= encoderTimer
  /\ encoderTimer' = Off
  /\ encoderProc' = "killed"
  /\ EncoderResolve(NoEncoders)
  /\ UNCHANGED << reqVars, now, response, files, pathsSet, dlVars, configProc,
                  metadata, engVars >>

\* probeProcess.on('close'): metadata on exit 0 with parsable output, else a
\* rejection, which the handler catches.
ProbeExit(code, md) ==
  /\ probeProc \in {"running", "killed", "errored"}
  /\ probeProc' = "closed"
  /\ probeTimer' = Off
  /\ ProbeSettle(IF code = 0 THEN md ELSE NullMetadata)
  /\ UNCHANGED << reqVars, now, pathsSet, dlVars, encVars >>

ProbeClose ==
  \E code \in ExitCodes(probeProc) :
  \E md \in ProbeReports \cup {NullMetadata} :
    ProbeExit(code, md)

\* probeProcess.on('error'): a spawn that failed, reported at the instant
\* of the spawn.
ProbeError ==
  /\ probeProc = "running"
  /\ now = probeTimer - ProbeTimeout
  /\ probeProc' = "errored"
  /\ probeTimer' = Off
  /\ ProbeSettle(NullMetadata)
  /\ UNCHANGED << reqVars, now, pathsSet, dlVars, encVars >>

\* The timeout callback of probeAudioFile.
ProbeTimerFire ==
  /\ probeTimer # Off
  /\ now >= probeTimer
  /\ probeTimer' = Off
  /\ probeProc' = "killed"
  /\ ProbeSettle(NullMetadata)
  /\ UNCHANGED << reqVars, now, pathsSet, dlVars, encVars >>

(* -------------------------------- time --------------------------------- *)

\* The due times of the timers that are armed.
ArmedDues ==
  ({axiosTimer, downloadTimer, encoderTimer, probeTimer} \ {Off})
    \cup { attempts[k].launched + attempts[k].timeout :
             k \in { i \in DOMAIN attempts : attempts[i].armed } }
    \cup { retryTimers[i] : i \in DOMAIN retryTimers }

\* The moments, other than the due times of its timers, at which the
\* invocation may see an event of its environment.
Instants == {3000, 7000, 7500}

\* A process that was killed or failed to start and whose close event is
\* still to come: the event comes before the clock moves on.
Closing ==
  \/ {configProc, encoderProc, probeProc} \cap {"killed", "errored"} # {}
  \/ \E k \in DOMAIN attempts : attempts[k].state \in {"killed", "errored"}

\* Time passes, to one of the instants or to the next due time, never beyond
\* a due time: a timer that is due fires before the clock moves on.
Tick ==
  /\ pc # "start"
  /\ ~Closing
  /\ \E t \in Instants \cup ArmedDues :
       /\ t > now
       /\ \A d \in ArmedDues : t <= d
       /\ now' = t
  /\ UNCHANGED << reqVars, handlerVars, dlVars, encVars, probeVars, engVars >>

(* ----------------------------- specification --------------------------- *)

AttemptCloses == \E k \in DOMAIN attempts : AttemptClose(k)
AttemptErrors == \E k \in DOMAIN attempts : AttemptError(k)
AttemptTimeouts == \E k \in DOMAIN attempts : AttemptTimeout(k)

Next ==
  \/ HandlerStart
  \/ AxiosResponse
  \/ AxiosError
  \/ AxiosTimeout
  \/ StreamFinish
  \/ StreamError
  \/ DownloadTimerFire
  \/ ConfigClose
  \/ ConfigError
  \/ EncoderClose
  \/ EncoderError
  \/ EncoderTimerFire
  \/ ProbeClose
  \/ ProbeError
  \/ ProbeTimerFire
  \/ AttemptCloses
  \/ AttemptErrors
  \/ AttemptTimeouts
  \/ RetryConversion
  \/ Tick

Spec == Init /\ [][Next]_vars

\* The scheduling the runtime guarantees: the handler starts, the clock
\* moves, a timer that is due fires, a killed or failed process is closed.
\* A subprocess that runs, the HTTP response and the download stream owe
\* the invocation nothing.
Fairness ==
  /\ WF_vars(HandlerStart)
  /\ WF_vars(Tick)
  /\ WF_vars(AxiosTimeout)
  /\ WF_vars(DownloadTimerFire)
  /\ WF_vars(EncoderTimerFire)
  /\ WF_vars(ProbeTimerFire)
  /\ WF_vars(RetryConversion)
  /\ WF_vars(AttemptTimeouts)
  /\ WF_vars(\E k \in DOMAIN attempts :
               attempts[k].state \in {"killed", "errored"} /\ AttemptClose(k))
  /\ WF_vars(configProc = "errored" /\ ConfigClose)
  /\ WF_vars(encoderProc \in {"killed", "errored"} /\ EncoderClose)
  /\ WF_vars(probeProc \in {"killed", "errored"} /\ ProbeClose)

FairSpec == Init /\ [][Next]_vars /\ Fairness

\* The handler up to the locator and the request parsing, on every file
\* system of FileSystems.
LocatorNext == HandlerStart

LocatorSpec == LocatorInit /\ [][LocatorNext]_vars

\* The strategy selection and the first launch, on every input of
\* SelectionInit and every report of ffprobe.
SelectionNext ==
  \E md \in SelectionReports \cup {NullMetadata} : ProbeExit(0, md)

SelectionSpec == SelectionInit /\ [][SelectionNext]_vars

\* The invocations in a scratch directory whose files may resist deletion,
\* in which every ffmpeg of the conversion starts and ends by itself.
CleanupNext ==
  \/ HandlerStart
  \/ AxiosResponse
  \/ AxiosError
  \/ AxiosTimeout
  \/ StreamFinish
  \/ StreamError
  \/ DownloadTimerFire
  \/ ConfigClose
  \/ ConfigError
  \/ EncoderClose
  \/ EncoderError
  \/ EncoderTimerFire
  \/ ProbeClose
  \/ ProbeError
  \/ ProbeTimerFire
  \/ AttemptCloses
  \/ RetryConversion
  \/ Tick

CleanupSpec == CleanupInit /\ [][CleanupNext]_vars

\* Two invocations in one scratch directory, up to the download of this one.
OverlapNext ==
  \/ HandlerStart
  \/ PeerStart
  \/ AxiosError
  \/ AxiosTimeout
  \/ Tick

OverlapSpec == Init /\ [][OverlapNext]_vars

(* ------------------------------- claims -------------------------------- *)

Running == { k \in DOMAIN attempts : attempts[k].state = "running" }

Settled == engine \in {"resolved", "rejected"}

Last(list) == list[Len(list)]

IsPrefix(a, b) == Len(a) <= Len(b) /\ \A i \in 1..Len(a) : a[i] = b[i]

\* C1: at most one ffmpeg strategy subprocess is running at any time, and no
\* strategy is spawned twice.
C1_OneAttemptAtATime ==
  /\ Cardinality(Running) <= 1
  /\ \A j, k \in DOMAIN attempts : j # k => attempts[j].strategy # attempts[k].strategy

\* C2: every failed attempt advances the engine by exactly one position:
\* currentStrategy is the number of attempts that failed, and the k-th
\* subprocess launched is the k-th strategy of the candidate list.
C2_AdvanceByOne ==
  /\ currentStrategy =
       Cardinality({ k \in DOMAIN attempts :
                       attempts[k].state \in {"killed", "errored", "failed"} })
  /\ \A k \in DOMAIN attempts :
       k <= Len(availableStrategies) /\ attempts[k].strategy = availableStrategies[k]

\* C3: attemptedStrategies is a prefix of the candidate list (so it has no
\* duplicate and is in list order), and it is not empty once the conversion
\* has failed.
C3_AttemptedIsPrefix ==
  /\ IsPrefix(attemptedStrategies, availableStrategies)
  /\ engine = "rejected" => attemptedStrategies # << >>

\* C4: when the engine rejects with 'All conversion strategies failed', the
\* attempted list it carries is the whole candidate list, each name once and
\* in order, and the handler answers 422.
C4_AllFailedListsAll ==
  engine = "rejected" =>
    /\ response.statusCode = 422
    /\ response.attempted = availableStrategies

\* C5: once convertWithFFmpeg has settled no further subprocess is launched,
\* and none that it launched is still running.
C5_NothingAfterSettle ==
  Settled => Len(attempts) = settledWith /\ Running = {}

\* C6: the engine reports success only for an exit 0 that left a non-empty
\* output, and the payload of a 200 response is the complete output of an
\* attempt that exited 0, never a partial or stale file.
C6_SuccessNeedsOutput ==
  /\ engine = "resolved" => response.statusCode \in {200, 413}
  /\ response.statusCode = 200 =>
       /\ response.body.whole
       /\ attempts[response.body.by].state = "succeeded"

\* C7: an exit 0 with an empty or missing output counts as a failure of
\* that strategy; an empty-output error is the terminal outcome only when
\* the last strategy of the candidate list was the one attempted.
C7_EmptyOutputAdvances ==
  response.debug \in { "Conversion created empty output file",
                       "Conversion did not create any output file" }
    => Last(attemptedStrategies) = Last(availableStrategies)

\* The content type and the extension of a container.
MimeOf(fmt) ==
  CASE fmt = "mp3" -> "audio/mpeg"
    [] fmt = "wav" -> "audio/wav"
    [] fmt = "aac" -> "audio/aac"
    [] fmt = "mp4" -> "audio/mp4"
    [] OTHER -> ""

\* C8: the Content-Type and the filename extension of every 200 response
\* are those of the container that the payload actually is.
C8_ContentTypeMatchesPayload ==
  response.statusCode = 200 =>
    /\ response.contentType = MimeOf(response.body.fmt)
    /\ response.filename = "converted." \o response.body.fmt

\* C9: every invocation produces its response: the handler eventually
\* returns, even if a subprocess it launched never exits on its own.
C9_EventuallyResponds == <>(pc = "done" /\ response.statusCode # 0)

\* C10: every attempt is launched with a timeout no larger than the budget
\* that remains at its launch.
C10_TimeoutWithinBudget ==
  \A k \in DOMAIN attempts :
    attempts[k].timeout <= MAX_PROCESSING_TIME - attempts[k].launched

\* The text of the error of the remaining-time guard.
InsufficientTime ==
  "Insufficient time remaining for conversion. File may be too large for processing within time limits."

\* C11: when fewer than 2000 ms of the 9000 ms remain as the transcoding
\* phase starts, the invocation fails with the insufficient-time error and
\* no attempt is ever launched; with 2000 ms or more it goes on to launch
\* the first attempt.
C11_InsufficientTimeGuard ==
  /\ [](response.debug = InsufficientTime => attempts = << >> /\ engine = "idle")
  /\ [][(pc = "probe" /\ pc' # "probe") =>
          IF 9000 - now < 2000
            THEN /\ pc' = "done"
                 /\ response'.debug = InsufficientTime
                 /\ attempts' = << >>
            ELSE /\ pc' = "convert"
                 /\ response' = NoResponse
                 /\ Len(attempts') = 1
                 /\ attempts'[1].state = "running"]_vars

\* C11 witness: the guard has refused a conversion.
C11_Witness ==
  /\ response.debug = InsufficientTime
  /\ probeProc # "none"
  /\ attempts = << >>

\* C12: an invocation that fails with the insufficient-time error is
\* answered with status 504.
C12_InsufficientTimeIs504 ==
  response.debug = InsufficientTime => response.statusCode = 504

\* C13: the timer of every phase is sized from the budget that remains when
\* it is armed: no download timer and no probe timer (of the encoder
\* listing, of ffprobe) is due after the 9000 ms deadline.
C13_PhaseTimersWithinBudget ==
  \A due \in {axiosTimer, downloadTimer, encoderTimer, probeTimer} \ {Off} :
    due <= MAX_PROCESSING_TIME

\* C14: a download of exactly zero bytes ends the invocation with the
\* empty-input error, answered with status 500, and no subprocess (version
\* query, encoder listing, ffprobe, ffmpeg attempt) is ever launched for it:
\* whenever a subprocess exists the input has at least one byte.
C14_EmptyInputStops ==
  /\ [](response.debug = "Downloaded file is empty" =>
          /\ response.statusCode = 500
          /\ inputSize = 0
          /\ {configProc, encoderProc, probeProc} = {"none"}
          /\ attempts = << >>)
  /\ []({configProc, encoderProc, probeProc} # {"none"} \/ attempts # << >>
          => inputSize > 0)
  /\ [][(StreamFinish /\ inputSize' = 0) =>
          pc' = "done" /\ response'.debug = "Downloaded file is empty"]_vars

\* C14 witness: an empty download was refused.
C14_Witness ==
  /\ response.debug = "Downloaded file is empty"
  /\ pc = "done"
  /\ inputSize = 0

BinaryNotFound ==
  { "FFmpeg binary not found. Please ensure the static binary is included.",
    "FFprobe binary not found. Please ensure the static binary is included." }

\* Nothing was downloaded, no scratch path was assigned and no subprocess
\* was launched.
NothingUsed ==
  /\ ~pathsSet
  /\ axiosTimer = Off /\ downloadTimer = Off
  /\ inputSize = 0
  /\ \A p \in Paths : files[p] = NoFile
  /\ {configProc, encoderProc, probeProc} = {"none"}
  /\ attempts = << >> /\ retryTimers = << >>

\* C15: when ffmpeg or ffprobe is found at no candidate path the invocation
\* ends at once with the binary-not-found error: nothing is downloaded, no
\* scratch file exists, no subprocess is launched, and the lookup is the
\* only one (the handler is done).
C15_BinaryNotFoundIsTerminal ==
  /\ (binaries.looked /\ (binaries.ffmpegPath = "" \/ binaries.ffprobePath = ""))
       => pc = "done" /\ response.debug \in BinaryNotFound /\ NothingUsed
  /\ response.debug \in BinaryNotFound => NothingUsed

\* C15 witness: the locator has failed for ffprobe.
C15_Witness ==
  /\ binaries.looked
  /\ binaries.ffmpegPath # "" /\ binaries.ffprobePath = ""
  /\ pc = "done"

\* C16: a binary-not-found failure, for ffmpeg or for ffprobe, is answered
\* with status 503.
C16_BinaryNotFoundIs503 ==
  response.debug \in BinaryNotFound => response.statusCode = 503

\* The path the locator is to return for a candidate list: the first of
\* the explicit paths that is a regular file, else the bare command name
\* that ends the list.
ExpectedPath(list, fsys) ==
  LET explicit == { i \in 1..(Len(list) - 1) : list[i] \in fsys.regular } IN
    IF explicit = {} THEN list[Len(list)]
    ELSE list[CHOOSE i \in explicit : \A j \in explicit : i <= j]

\* C17: for each binary independently the locator returns the first
\* candidate that is a regular file, and the bare command name when no
\* explicit path matches; it does not fail.
C17_LocatorFallsBackToBareName ==
  binaries.looked =>
    /\ binaries.ffmpegPath = ExpectedPath(possiblePaths, request.fsys)
    /\ binaries.ffprobePath = ExpectedPath(probePaths, request.fsys)
    /\ binaries.error = ""

\* The Authorization header of the request is absent, is not of the form
\* 'Bearer <token>', or carries a token other than the configured secret.
AuthRefused ==
  \/ request.authHeader = ""
  \/ request.authHeader = "Basic good"
  \/ request.authHeader = "Bearer bad" /\ request.apiToken = "good"

C19_NoUrlIs400 ==
  response.debug = "No URL provided" => response.statusCode = 400

DownloadFailures ==
  AxiosErrors \cup {"timeout of 4000ms exceeded", "Download timeout", "aborted"}

\* C21: every download failure is answered with status 400 or 504, is the
\* terminal outcome, and no probe or transcode subprocess is launched.
C21_DownloadFailureIs400Or504 ==
  response.debug \in DownloadFailures =>
    /\ pc = "done"
    /\ response.statusCode \in {400, 504}
    /\ {configProc, encoderProc, probeProc} = {"none"}
    /\ attempts = << >>

\* C22: a failure of the format probe does not end the invocation: every
\* step that ends the probe phase leads to the conversion (or to its
\* remaining-time guard refusing it), and after the probe timeout or a
\* spawn error the handler goes on with metadata = null.
C22_ProbeFailureContinues ==
  [][(pc = "probe" /\ pc' # "probe") =>
       /\ \/ pc' = "convert" /\ Len(attempts') = 1 /\ response' = NoResponse
          \/ pc' = "done" /\ response'.debug = InsufficientTime
                 /\ 9000 - now < 2000
       /\ probeProc' \in {"killed", "errored"} => metadata' = NullMetadata]_vars

\* C22 witness: the probe timed out and the first attempt was launched
\* without metadata.
C22_Witness ==
  /\ pc = "convert"
  /\ probeProc = "killed"
  /\ metadata = NullMetadata
  /\ Len(attempts) = 1

\* C23: the capability prober never fails the invocation, and when the
\* encoder listing timed out or exited with a non-zero code the handler
\* goes on with all four flags false, whatever the listing printed.
C23_EncoderFailureGivesNoFlags ==
  /\ pc = "done" /\ probeProc = "none" => configProc = "none"
  /\ (pc \in {"probe", "convert"} /\ encoderProc \in {"killed", "nonzero"})
       => encoderInfo = NoEncoders

\* C24: every subprocess that is running has an armed timer that will kill
\* it: the version query, the encoder listing, ffprobe and each attempt.
C24_EverySubprocessHasTimer ==
  /\ configProc = "running" => configTimer # Off
  /\ encoderProc = "running" => encoderTimer # Off
  /\ probeProc = "running" => probeTimer # Off
  /\ \A k \in DOMAIN attempts : attempts[k].state = "running" => attempts[k].armed

\* C25: the phases run in sequence: once the format probe has begun the
\* subprocesses of the capability prober are neither running nor spawned,
\* and once the conversion has begun ffprobe is not running.
C25_PhasesInSequence ==
  /\ pc \in {"probe", "convert", "done"} =>
       configProc # "running" /\ encoderProc # "running"
  /\ pc \in {"convert", "done"} => probeProc # "running"

\* C26: the candidate list is computed once, before the first attempt:
\* from the first launch on no step changes its contents or its order.
C26_ListFixedAfterFirstLaunch ==
  /\ [](engine = "idle" => availableStrategies = << >> /\ attempts = << >>)
  /\ [][engine # "idle" => availableStrategies' = availableStrategies]_vars

\* C26 witness: an attempt has failed and a second one was launched.
C26_Witness ==
  /\ engine = "running"
  /\ Len(attempts) >= 2
  /\ attempts[1].state = "failed"
  /\ attempts[2].state = "running"

\* The capability flag that reports the encoder of a strategy.
HasCodecOf(info, name) ==
  CASE CodecOf(name) = "aac" -> info.hasAac
    [] CodecOf(name) = "pcm_s16le" -> info.hasWav
    [] OTHER -> info.hasLibmp3lame

\* C27: no strategy whose encoder is reported absent is a candidate or is
\* attempted: libmp3lame only with hasLibmp3lame, aac only with hasAac,
\* pcm/wav only with hasWav.
C27_CandidatesHaveTheirCodec ==
  /\ \A i \in DOMAIN availableStrategies :
       HasCodecOf(encoderInfo, availableStrategies[i])
  /\ \A k \in DOMAIN attempts : HasCodecOf(encoderInfo, attempts[k].strategy)

\* C28: when the probe reports the iOS M4A profile, the strategy of the
\* matching codec (aac) is first in the candidate list and is the first
\* one attempted.
C28_IosProfilePromotesAac ==
  (isIosM4a(metadata) /\ attempts # << >>) =>
    /\ CodecOf(availableStrategies[1]) = "aac"
    /\ CodecOf(attempts[1].strategy) = "aac"

\* The candidate list as a table of the inputs of the selection.
ExpectedCandidates(size, info) ==
  (IF size > 10 * 1024 * 1024 THEN << "ultra-compressed" >> ELSE << >>)
    \o << "wav-pcm-compressed", "aac-compressed" >>
    \o (IF info.hasLibmp3lame THEN << "libmp3lame-minimal" >> ELSE << >>)

\* C29: the selection is deterministic: the candidate list and its order
\* are a function of the capabilities, the probe's report and the input
\* size alone, and the strategy launched first is the head of that list.
C29_SelectionIsDeterministic ==
  engine # "idle" =>
    /\ availableStrategies = ExpectedCandidates(inputSize, encoderInfo)
    /\ attempts # << >>
    /\ attempts[1].strategy = availableStrategies[1]
    /\ attemptedStrategies[1] = availableStrategies[1]

\* C29 witness: a selection made late in the budget, for a large input with
\* the iOS profile on a build without libmp3lame.
C29_Witness ==
  /\ engine = "running"
  /\ now = 3000
  /\ isIosM4a(metadata)
  /\ inputSize > LargeInputLimit
  /\ encoderInfo.hasWav /\ ~encoderInfo.hasLibmp3lame
  /\ Len(attempts) = 1

\* C30: once the handler has returned, neither scratch path holds a file:
\* the cleanup removed them and no launched subprocess writes one afterwards.
C30_ScratchFilesGoneAfterReturn ==
  (pc = "done" /\ pathsSet) => \A p \in Paths : files[p] = NoFile

\* The error texts the handler can catch.
HandlerErrors ==
  { "Missing Authorization header",
    "Invalid authorization format. Use 'Bearer <token>'",
    "Server configuration error: API token not set",
    "Invalid authentication token",
    "FFmpeg binary not found. Please ensure the static binary is included.",
    "FFprobe binary not found. Please ensure the static binary is included.",
    "No URL provided", "Downloaded file is empty",
    "Input file too large (over 20MB). Please use a shorter recording or compress the file before conversion.",
    InsufficientTime, "Conversion did not create any output file",
    "Conversion created empty output file",
    "All conversion strategies failed. Attempted: " } \cup DownloadFailures

\* C31: a failed deletion of a scratch file is swallowed: the handler
\* returns the response of the try or catch block (a 200 with the converted
\* file, the 413 of the response limit, or the classification of an error
\* of the handler, never of the unlink), and every other scratch file is
\* still deleted.
C31_CleanupFailureIsSwallowed ==
  [][(pc # "done" /\ pc' = "done") =>
       /\ \/ response'.statusCode = 200 /\ response'.body.size > 0
          \/ /\ response'.statusCode = 413
             /\ response'.error = "Converted file too large for response"
          \/ /\ response'.debug \in HandlerErrors
             /\ response'.statusCode = Classification(response'.debug).statusCode
             /\ response'.error = Classification(response'.debug).error
       /\ pathsSet' => \A p \in Paths \ request.unlinkFails : files'[p] = NoFile]_vars

\* C31 witness: the input file could not be deleted, the handler returned
\* the converted file and the output file is gone.
C31_Witness ==
  /\ pc = "done"
  /\ request.unlinkFails = {InPath}
  /\ Exists(files, InPath)
  /\ response.statusCode = 200
  /\ files[OutPath] = NoFile

\* C32: two invocations that overlap in the same scratch directory have
\* different input paths and different output paths.
C32_OverlappingPathsDiffer ==
  (timestamp["this"] # Off /\ timestamp["peer"] # Off) =>
    /\ ScratchPaths(timestamp["this"]).inPath # ScratchPaths(timestamp["peer"]).inPath
    /\ ScratchPaths(timestamp["this"]).outPath # ScratchPaths(timestamp["peer"]).outPath

\* C33: every 200 response has Content-Type audio/mpeg and the attachment
\* file name converted.mp3.
C33_SuccessIsMp3Attachment ==
  response.statusCode = 200 =>
    /\ response.contentType = "audio/mpeg"
    /\ response.filename = "converted.mp3"

\* C34: every response other than a 200 carries a status of the
\* classification, a message for the user and, in its debug field, the text
\* of the underlying error.
C34_FailureKeepsRawText ==
  (pc = "done" /\ response.statusCode # 200) =>
    /\ response.statusCode \in {400, 401, 413, 422, 500, 503, 504}
    /\ response.error # ""
    /\ response.debug # ""

\* The state of the four-state machine that a state of the engine stands
\* for; Idle before convertWithFFmpeg is called.
EngineState ==
  IF engine = "idle" THEN << "Idle" >>
  ELSE IF engine = "resolved" THEN << "Succeeded" >>
  ELSE IF engine = "rejected" THEN << "Exhausted" >>
  ELSE IF Running = {} THEN << "Pending", currentStrategy >>
  ELSE << "Attempting", currentStrategy >>

\* The transitions of the four-state machine, the call of convertWithFFmpeg
\* entering it at the first strategy.
EngineTransition(a, b) ==
  \/ a = << "Idle" >> /\ b \in { << "Pending", 0 >>, << "Attempting", 0 >> }
  \/ a[1] = "Pending" /\ b = << "Attempting", a[2] >>
  \/ a[1] = "Pending" /\ a[2] = Len(availableStrategies) /\ b = << "Exhausted" >>
  \/ a[1] = "Attempting" /\ b = << "Succeeded" >>
  \/ a[1] = "Attempting" /\ b = << "Pending", a[2] + 1 >>

\* C35: the engine refines the machine Pending(i) / Attempting(i) /
\* Succeeded / Exhausted: an unsettled engine has at most one attempt
\* running, and every step is a stutter or one of the four transitions.
C35_EngineRefinesFourStates ==
  /\ [](engine = "running" => Cardinality(Running) <= 1)
  /\ [][EngineState' = EngineState \/ EngineTransition(EngineState, EngineState')]_vars

\* Where a name occurs in a list.
PositionsOf(list, name) == { i \in DOMAIN list : list[i] = name }

C37_InputSizeGuard ==
  /\ [](inputSize > 20 * 1024 * 1024 =>
          /\ pc = "done"
          /\ response.statusCode = 413
          /\ {configProc, encoderProc, probeProc} = {"none"}
          /\ attempts = << >>)
  /\ [][(pc = "stream" /\ pc' # "stream" /\ inputSize' = 20 * 1024 * 1024) =>
          /\ pc' = "encoders"
          /\ configProc' = "running"
          /\ response' = NoResponse]_vars

\* C37 witness: an input of 20 MB + 1 bytes was downloaded and refused.
C37_Witness ==
  /\ inputSize = 20 * 1024 * 1024 + 1
  /\ pc = "done"
  /\ response.statusCode = 413
  /\ configProc = "none"

\* C38: no 200 response has a payload of more than 3 MB: for a larger
\* output the handler returns the 413 JSON error without the payload, and
\* the scratch files are deleted when it returns it.
C38_LargeOutputIs413 ==
  /\ [](response.statusCode = 200 => response.body.size <= 3 * 1024 * 1024)
  /\ [][(pc # "done" /\ response'.error = "Converted file too large for response") =>
          /\ pc' = "done"
          /\ engine' = "resolved"
          /\ response'.statusCode = 413
          /\ response'.contentType = "application/json"
          /\ response'.body = NoFile
          /\ \A p \in Paths : files'[p] = NoFile]_vars

\* C38 witness: the handler returned the 413 of the response limit and the
\* scratch files are gone.
C38_Witness ==
  /\ pc = "done"
  /\ response.statusCode = 413
  /\ response.error = "Converted file too large for response"
  /\ \A p \in Paths : files[p] = NoFile

\* C39: convertWithFFmpeg is called with timeoutMs = remaining budget - 500,
\* a value from 1500 to 8500, and every attempt gets that value as its
\* timeout, never zero or less.
C39_TimeoutMsRange ==
  /\ [](engine # "idle" =>
          /\ timeoutMs >= 1500 /\ timeoutMs <= 8500
          /\ \A k \in DOMAIN attempts :
               attempts[k].timeout = timeoutMs /\ attempts[k].timeout > 0)
  /\ [][(engine = "idle" /\ engine' # "idle") => timeoutMs' = (9000 - now) - 500]_vars

\* C39 witness: convertWithFFmpeg was called with exactly 2000 ms left and
\* its attempt has a timeout of 1500 ms.
C39_Witness ==
  /\ engine = "running"
  /\ timeoutMs = 1500
  /\ attempts # << >>
  /\ attempts[1].timeout = 1500

\* The request presents the configured secret as its bearer token.
Authorized ==
  /\ request.apiToken # ""
  /\ request.authHeader = "Bearer " \o request.apiToken

====
